---- MODULE Spec2Model ----
(***************************************************************************)
(* State-machine model of src/trunk/src/common/crypto.c: the reference-    *)
(* counted public-key handle (crypto_pk_env_t) and the symmetric-cipher    *)
(* handle (crypto_cipher_env_t).  Every allocation and release of a        *)
(* provider object is accounted for, an assert that fails or a NULL        *)
(* dereference ends the process, and each call leaves a record of what it  *)
(* returned and of the provider calls it made.                             *)
(***************************************************************************)
EXTENDS Integers, Sequences, FiniteSets, TLC

\* ------------------------------------------------------------------ bounds
MaxN == 2           \* moduli are drawn from 1..MaxN
MaxRefs == 2        \* cap on env->refs (crypto_pk_dup_key itself is unbounded)
MaxPathLen == 1     \* longest file name handed to the module

\* --------------------------------------------------------------- constants
NULL == 0
CRYPTO_PK_RSA == "CRYPTO_PK_RSA"
CRYPTO_PK_OTHER == "CRYPTO_PK_OTHER"     \* any type value that is not CRYPTO_PK_RSA
KeyGenExponent == 65537

\* Two addresses a crypto_pk_env_t can live at: every operation takes one
\* handle, crypto_pk_cmp_keys takes two.  A released address is handed out again.
PkIds == {1, 2}
PkTypes == {CRYPTO_PK_RSA, CRYPTO_PK_OTHER}
ModVals == 1..MaxN
ExpVals == {3, KeyGenExponent}

\* A BIGNUM pointer: <<>> is the NULL pointer, <<v>> points to the number v.
NoBN == <<>>
BN(v) == <<v>>

\* Two addresses a crypto_cipher_env_t can live at; a released address is handed out again.
CipherIds == {1, 2}
CRYPTO_CIPHER_IDENTITY == "CRYPTO_CIPHER_IDENTITY"
CRYPTO_CIPHER_DES == "CRYPTO_CIPHER_DES"
CRYPTO_CIPHER_RC4 == "CRYPTO_CIPHER_RC4"
CRYPTO_CIPHER_3DES == "CRYPTO_CIPHER_3DES"
CRYPTO_CIPHER_OTHER == "CRYPTO_CIPHER_OTHER"   \* any type value the switches do not list
CipherTypes == {CRYPTO_CIPHER_IDENTITY, CRYPTO_CIPHER_DES, CRYPTO_CIPHER_RC4,
                CRYPTO_CIPHER_3DES, CRYPTO_CIPHER_OTHER}

VARIABLES
  pk,       \* pk[h]: the crypto_pk_env_t at address h
  rsaLive,  \* number of provider RSA objects allocated and not released
  badFree,  \* TRUE once RSA_free was handed an object that was already released
  last,     \* the call that just returned: operation, arguments, value, provider calls made
  halt,     \* "run", or how the process died: "assert" (assert failed), "segv" (NULL dereference)
  files,    \* number of FILE streams opened by this module and not closed
  origin,   \* history: origin[h] is "public" when the last generate or load that returned 0
            \* on h was a public-only load, and "other" otherwise
  cipher,   \* cipher[c]: the crypto_cipher_env_t at address c
  cmem      \* number of blocks malloc'ed for cipher handles and not freed

pkvars == <<pk, rsaLive, badFree, files, origin>>
ciphervars == <<cipher, cmem>>
vars == <<pk, rsaLive, badFree, last, halt, files, origin, cipher, cmem>>

\* ------------------------------------------------------------ key material
\* env->key, with the RSA object it points to.  The module never copies the
\* pointer from one handle to another, so an RSA object is referenced by one
\* slot at most and is modelled in the slot: ptr is "null" (env->key == NULL),
\* or "live" (points to an allocated object); n, e, p are the object's modulus,
\* public exponent and first prime.
NoKey == [ptr |-> "null", n |-> NoBN, e |-> NoBN, p |-> NoBN]

\* What RSA_new() returns: an RSA object with no component set.
RSA_new == [ptr |-> "live", n |-> NoBN, e |-> NoBN, p |-> NoBN]
\* What RSA_generate_key(1024, 65537, NULL, NULL) can return.
GeneratedKeys == {[ptr |-> "live", n |-> BN(n), e |-> BN(KeyGenExponent), p |-> BN(1)] : n \in ModVals}
\* What PEM_read_RSAPrivateKey can return from a stream that holds a key.
PrivateKeys == {[ptr |-> "live", n |-> BN(n), e |-> BN(e), p |-> BN(1)] : n \in ModVals, e \in ExpVals}
\* What PEM_read_RSAPublicKey / PEM_read_bio_RSAPublicKey can return.
PublicKeys == {[ptr |-> "live", n |-> BN(n), e |-> BN(e), p |-> NoBN] : n \in ModVals, e \in ExpVals}

\* The provider's heap of RSA objects, as far as the module can affect it.
Heap == [live |-> rsaLive, bad |-> badFree]

\* RSA_free(key): NULL is ignored by the provider; a live object is released;
\* releasing a released object is recorded.
RSA_free(heap, key) ==
  IF key.ptr = "null" THEN heap
  ELSE IF key.ptr = "live" THEN [heap EXCEPT !.live = @ - 1]
  ELSE [heap EXCEPT !.bad = TRUE]

\* Faulty variant of ReleaseOld: the old object is not released.
KeepOld(heap, key) == heap

\* "if (env->key) RSA_free((RSA *)env->key);"
ReleaseOld(heap, key) ==
  IF key.ptr # "null" THEN RSA_free(heap, key) ELSE heap

\* The slot right after the release: the pointer is still in it.
Released(key) == IF key.ptr = "live" THEN [key EXCEPT !.ptr = "dangling"] ELSE key

\* Faulty variant of StoreResult: a NULL result is not stored.
StoreIfSet(slot, res) == IF res.ptr = "null" THEN slot ELSE res

\* "env->key = (unsigned char *)RSA_generate_key(...)" and the like: the slot
\* takes what the provider returned, NULL included.
StoreResult(slot, res) == res

\* The provider calls ReleaseOld makes.
FreeOld(key) == IF key.ptr # "null" THEN <<"RSA_free">> ELSE <<>>

\* The heap after the provider returned res (an allocated object, or NoKey for NULL).
Allocated(heap, res) ==
  IF res.ptr = "live" THEN [heap EXCEPT !.live = @ + 1] ELSE heap

UnallocEnv == [st |-> "unalloc", type |-> CRYPTO_PK_RSA, refs |-> 0, key |-> NoKey]
Live(h) == h \in PkIds /\ pk[h].st = "live"
FreeEnvIds == {h \in PkIds : pk[h].st = "unalloc"}
Min(S) == CHOOSE x \in S : \A y \in S : x <= y

\* ---------------------------------------------------------- cipher handles
\* A pointer to bytes with what it points to: ptr is "null" or "live".
NoBuf == [ptr |-> "null", data |-> <<>>]
\* A byte of malloc'ed memory that was never written.
Uninit == -1
malloc(n) == [ptr |-> "live", data |-> [i \in 1..n |-> Uninit]]
\* Faulty variant of memcpy: all of src is copied, whatever n is.
memcpy_all(dst, src, n) == [dst EXCEPT !.data = src.data]

\* memcpy(dst, src, n)
memcpy(dst, src, n) == [dst EXCEPT !.data = SubSeq(src.data, 1, n)]

\* env->aux, with the EVP_CIPHER_CTX it points to: bound is "none" after
\* EVP_CIPHER_CTX_init, and the direction once an init call bound the context.
\* pos is the number of bytes the context has streamed since it was bound;
\* inp and out are history: the bytes it was given and the bytes it produced
\* since then.
NoCtx == [ptr |-> "null", bound |-> "none", cipher |-> "NULL", key |-> NoBuf, iv |-> NoBuf,
          pos |-> 0, inp |-> <<>>, out |-> <<>>]
EVP_CIPHER_CTX_init == [NoCtx EXCEPT !.ptr = "live"]
\* EVP_EncryptInit(ctx, cipher, key, iv): the context takes the primitive,
\* copies key and iv and is bound for encryption, at the start of the stream.
EVP_EncryptInit(ctx, evp, key, iv) ==
  [ctx EXCEPT !.bound = "enc", !.cipher = evp, !.key = key, !.iv = iv,
              !.pos = 0, !.inp = <<>>, !.out = <<>>]

\* What the provider reads from a buffer whose bytes were never written:
\* junk stands for each of them.
Resolve(buf, junk) ==
  [buf EXCEPT !.data = [i \in 1..Len(buf.data) |-> IF buf.data[i] = Uninit THEN junk ELSE buf.data[i]]]
\* One value the provider may find there; 0 is the other one drawn.
JunkByte == 255
HasUninit(buf) == \E i \in 1..Len(buf.data) : buf.data[i] = Uninit

\* Bitwise exclusive or of two bytes.
RECURSIVE Xor(_, _)
Xor(a, b) ==
  IF a = 0 THEN b
  ELSE IF b = 0 THEN a
  ELSE (((a % 2) + (b % 2)) % 2) + (2 * Xor(a \div 2, b \div 2))

\* Byte i (from 0) of a buffer read cyclically; 0 for a buffer that is absent.
ByteAt(buf, i) == IF Len(buf.data) = 0 THEN 0 ELSE buf.data[(i % Len(buf.data)) + 1]

\* The four primitives of crypto_cipher_evp_cipher are stream transforms: the
\* output is the input combined by exclusive or with a key stream.  The null
\* cipher's stream is zero, RC4's depends on the key, and the output-feedback
\* modes' depends on key and iv.
Keystream(ctx, i) ==
  IF ctx.cipher = "EVP_enc_null" THEN 0
  ELSE IF ctx.cipher = "EVP_rc4" THEN (ByteAt(ctx.key, i) + i) % 256
  ELSE (ByteAt(ctx.key, i) + ByteAt(ctx.iv, i) + i) % 256

StreamOut(ctx, in) == [k \in 1..Len(in) |-> Xor(in[k], Keystream(ctx, ctx.pos + k - 1))]

\* EVP_EncryptUpdate(ctx, out, &outl, in, inl): the context after the call and
\* the bytes written to out.  A context that was never bound has no
\* primitive: the call goes through a NULL pointer.
EVP_EncryptUpdate(ctx, in) ==
  IF ctx.cipher = "NULL" THEN [halt |-> "segv", ctx |-> ctx, out |-> <<>>]
  ELSE [halt |-> "run",
        ctx |-> [ctx EXCEPT !.pos = @ + Len(in), !.inp = @ \o in, !.out = @ \o StreamOut(ctx, in)],
        out |-> StreamOut(ctx, in)]

\* Faulty variant of EVP_DecryptUpdate: every chunk is combined with the start of the key stream.
EVP_DecryptUpdate_restart(ctx, in) ==
  IF ctx.cipher = "NULL" THEN [halt |-> "segv", ctx |-> ctx, out |-> <<>>]
  ELSE LET o == [k \in 1..Len(in) |-> Xor(in[k], Keystream(ctx, k - 1))]
       IN [halt |-> "run",
           ctx |-> [ctx EXCEPT !.pos = @ + Len(in), !.inp = @ \o in, !.out = @ \o o],
           out |-> o]

\* EVP_DecryptUpdate(ctx, out, &outl, in, inl): for a primitive of block size
\* 1, as all four are, the provider hands the call to EVP_EncryptUpdate.
EVP_DecryptUpdate(ctx, in) == EVP_EncryptUpdate(ctx, in)

UnallocCipher == [st |-> "unalloc", type |-> CRYPTO_CIPHER_IDENTITY, key |-> NoBuf, iv |-> NoBuf, aux |-> NoCtx]
LiveCipher(c) == c \in CipherIds /\ cipher[c].st = "live"
FreeCipherIds == {c \in CipherIds : cipher[c].st = "unalloc"}

\* The buffers callers hand in: NoBuf for a NULL pointer, or InputLen bytes.
MaxInput == 2
InputLen == 17
Pattern(b) == [i \in 1..InputLen |-> (b * i) % 256]
InputBufs == {[ptr |-> "live", data |-> Pattern(b)] : b \in 1..MaxInput}

\* The data handed to the transforms: chunks of one byte up to MaxStream bytes,
\* and a context streams MaxStream bytes at most.
MaxStream == 2
PlainBytes == {0, 255}
Chunks == UNION {[1..n -> PlainBytes] : n \in 1..MaxStream}

\* The registry lookups: the value returned, and "assert" where the default
\* branch runs assert(0).
crypto_cipher_iv_length(type) ==
  CASE type = CRYPTO_CIPHER_IDENTITY -> [halt |-> "run", ret |-> 0]
    [] type = CRYPTO_CIPHER_DES -> [halt |-> "run", ret |-> 8]
    [] type = CRYPTO_CIPHER_RC4 -> [halt |-> "run", ret |-> 16]
    [] type = CRYPTO_CIPHER_3DES -> [halt |-> "run", ret |-> 8]
    [] OTHER -> [halt |-> "assert", ret |-> -1]

crypto_cipher_key_length(type) ==
  CASE type = CRYPTO_CIPHER_IDENTITY -> [halt |-> "run", ret |-> 0]
    [] type = CRYPTO_CIPHER_DES -> [halt |-> "run", ret |-> 8]
    [] type = CRYPTO_CIPHER_RC4 -> [halt |-> "run", ret |-> 16]
    [] type = CRYPTO_CIPHER_3DES -> [halt |-> "run", ret |-> 16]
    [] OTHER -> [halt |-> "assert", ret |-> -1]

crypto_cipher_evp_cipher(type) ==
  CASE type = CRYPTO_CIPHER_IDENTITY -> "EVP_enc_null"
    [] type = CRYPTO_CIPHER_DES -> "EVP_des_ofb"
    [] type = CRYPTO_CIPHER_RC4 -> "EVP_rc4"
    [] type = CRYPTO_CIPHER_3DES -> "EVP_des_ede_ofb"
    [] OTHER -> "NULL"

Call(op, args, ret, trace) == [op |-> op, args |-> args, ret |-> ret, trace |-> trace]

\* History only: the kind of operation is recorded when the call returned 0.
Originate(h, ret, kind) == IF ret = 0 THEN [origin EXCEPT ![h] = kind] ELSE origin

Init ==
  /\ pk = [h \in PkIds |-> UnallocEnv]
  /\ rsaLive = 0
  /\ badFree = FALSE
  /\ last = Call("none", <<>>, 0, <<>>)
  /\ halt = "run"
  /\ files = 0
  /\ origin = [h \in PkIds |-> "other"]
  /\ cipher = [c \in CipherIds |-> UnallocCipher]
  /\ cmem = 0

\* ------------------------------------------------------- crypto_new_pk_env
\* Faulty variant of NewEnv: the handle starts with no reference counted.
NewEnvUncounted(type, key) == [st |-> "live", type |-> type, refs |-> 0, key |-> key]

\* The fields of a handle as crypto_new_pk_env leaves them.
NewEnv(type, key) == [st |-> "live", type |-> type, refs |-> 1, key |-> key]

crypto_new_pk_env(type, mallocOK, rsaOK) ==
  /\ halt = "run"
  /\ FreeEnvIds # {}
  /\ mallocOK \/ rsaOK                  \* rsaOK is not read when malloc failed
  /\ LET h == Min(FreeEnvIds)
     IN IF ~mallocOK
        THEN /\ last' = Call("new", <<type>>, NULL, <<>>)
             /\ UNCHANGED <<pk, rsaLive, badFree>>
        ELSE IF type = CRYPTO_PK_RSA
        THEN IF rsaOK
             THEN /\ pk' = [pk EXCEPT ![h] = NewEnv(type, RSA_new)]
                  /\ rsaLive' = Allocated(Heap, RSA_new).live
                  /\ last' = Call("new", <<type>>, h, <<"RSA_new">>)
                  /\ UNCHANGED badFree
             ELSE \* env is freed again before the NULL return
                  /\ last' = Call("new", <<type>>, NULL, <<"RSA_new", "free">>)
                  /\ UNCHANGED <<pk, rsaLive, badFree>>
        ELSE /\ last' = Call("new", <<type>>, NULL, <<"free">>)
             /\ UNCHANGED <<pk, rsaLive, badFree>>
  /\ UNCHANGED <<halt, files, origin, ciphervars>>

\* ------------------------------------------------------ crypto_free_pk_env
\* Faulty variant of StillReferenced: "if (env->refs-- > 0) return;"
StillReferencedPost(refs) == refs > 0

\* "if (--env->refs > 0) return;"
StillReferenced(refs) == refs - 1 > 0

crypto_free_pk_env(h) ==
  /\ halt = "run"
  /\ Live(h)
  /\ IF StillReferenced(pk[h].refs)
     THEN /\ pk' = [pk EXCEPT ![h].refs = @ - 1]
          /\ last' = Call("free", <<h>>, 0, <<>>)
          /\ UNCHANGED <<rsaLive, badFree, origin>>
     ELSE LET heap == IF pk[h].type = CRYPTO_PK_RSA THEN ReleaseOld(Heap, pk[h].key) ELSE Heap
          IN /\ rsaLive' = heap.live
             /\ badFree' = heap.bad
             /\ pk' = [pk EXCEPT ![h] = UnallocEnv]
             /\ last' = Call("free", <<h>>, 0,
                             (IF pk[h].type = CRYPTO_PK_RSA THEN FreeOld(pk[h].key) ELSE <<>>)
                             \o <<"free">>)
             /\ origin' = [origin EXCEPT ![h] = "other"]
  /\ UNCHANGED <<halt, files, ciphervars>>

\* ------------------------------------------------------- crypto_pk_dup_key
crypto_pk_dup_key(h) ==
  /\ halt = "run"
  /\ Live(h)
  /\ pk[h].refs < MaxRefs
  /\ IF pk[h].key.ptr = "null"
     THEN /\ halt' = "assert"
          /\ last' = Call("dup", <<h>>, NULL, <<>>)
          /\ UNCHANGED pk
     ELSE IF pk[h].type = CRYPTO_PK_RSA
     THEN /\ pk' = [pk EXCEPT ![h].refs = @ + 1]
          /\ last' = Call("dup", <<h>>, h, <<>>)
          /\ UNCHANGED halt
     ELSE /\ last' = Call("dup", <<h>>, NULL, <<>>)
          /\ UNCHANGED <<pk, halt>>
  /\ UNCHANGED <<rsaLive, badFree, files, origin, ciphervars>>

\* -------------------------------------------------- crypto_pk_generate_key
crypto_pk_generate_key(h, res) ==
  /\ halt = "run"
  /\ Live(h)
  /\ IF pk[h].type = CRYPTO_PK_RSA
     THEN LET old == pk[h].key
              heap == Allocated(ReleaseOld(Heap, old), res)
              ret == IF res.ptr = "null" THEN -1 ELSE 0
          IN /\ rsaLive' = heap.live
             /\ badFree' = heap.bad
             /\ pk' = [pk EXCEPT ![h].key = StoreResult(Released(old), res)]
             /\ last' = Call("generate", <<h>>, ret, FreeOld(old) \o <<"RSA_generate_key">>)
             /\ origin' = Originate(h, ret, "other")
     ELSE /\ last' = Call("generate", <<h>>, -1, <<>>)
          /\ UNCHANGED <<pk, rsaLive, badFree, origin>>
  /\ UNCHANGED <<halt, files, ciphervars>>

\* ------------------------------------ crypto_pk_read_private_key_from_file
\* The value returned, the heap and the slot after the call, and the provider calls made.
read_private_key_from_file(h, res) ==
  IF pk[h].type = CRYPTO_PK_RSA
  THEN LET old == pk[h].key
       IN [ret |-> IF res.ptr = "null" THEN -1 ELSE 0,
           heap |-> Allocated(ReleaseOld(Heap, old), res),
           key |-> StoreResult(Released(old), res),
           trace |-> FreeOld(old) \o <<"PEM_read_RSAPrivateKey">>]
  ELSE [ret |-> -1, heap |-> Heap, key |-> pk[h].key, trace |-> <<>>]

crypto_pk_read_private_key_from_file(h, res) ==
  /\ halt = "run"
  /\ Live(h)
  /\ LET r == read_private_key_from_file(h, res)
     IN /\ rsaLive' = r.heap.live
        /\ badFree' = r.heap.bad
        /\ pk' = [pk EXCEPT ![h].key = r.key]
        /\ last' = Call("read_private_key_from_file", <<h>>, r.ret, r.trace)
        /\ origin' = Originate(h, r.ret, "other")
  /\ UNCHANGED <<halt, files, ciphervars>>

\* ------------------------------------------------------ crypto_pk_check_key
\* chk is what the provider's RSA_check_key answers: 1 valid, 0 invalid, -1 error.
crypto_pk_check_key(h, chk) ==
  IF pk[h].type = CRYPTO_PK_RSA THEN chk ELSE -1

\* -------------------------------- crypto_pk_read_private_key_from_filename
\* strspn(s, accept): the length of the longest prefix of s made of characters of accept.
RECURSIVE strspn(_, _)
strspn(s, accept) ==
  IF s = <<>> \/ Head(s) \notin accept THEN 0
  ELSE 1 + strspn(Tail(s), accept)

\* The characters file names are written in here: "a" and "/" are legal in a
\* file name, ";" is not.
CONFIG_LEGAL_FILENAME_CHARACTERS == {"a", "/"}
PathChars == {"a", ";"}
Paths == UNION {[1..n -> PathChars] : n \in 0..MaxPathLen}

\* Faulty variant of LegalOnly: only an empty name is turned down.
AnyName(keyfile) == Len(keyfile) # 0 \/ strspn(keyfile, CONFIG_LEGAL_FILENAME_CHARACTERS) # 0

\* "strspn(keyfile,CONFIG_LEGAL_FILENAME_CHARACTERS) == strlen(keyfile)"
LegalOnly(keyfile) == strspn(keyfile, CONFIG_LEGAL_FILENAME_CHARACTERS) = Len(keyfile)

\* Faulty variant of CheckOutcome: only an invalid key is turned down.
CheckOutcomeLax(retval) == IF retval = 0 THEN -1 ELSE 0

\* The value returned for the answer retval of crypto_pk_check_key.
CheckOutcome(retval) ==
  IF retval = 0 THEN -1
  ELSE IF retval = -1 THEN -1
  ELSE IF retval = 1 THEN 0
  ELSE -1

\* An input the call never reads is fixed, so that each run of the call is drawn once.
FilenameInputs(keyfile, fopenOK, res, chk) ==
  /\ ~LegalOnly(keyfile) => ~fopenOK
  /\ ~fopenOK => res = NoKey
  /\ res = NoKey => chk = -1

crypto_pk_read_private_key_from_filename(h, keyfile, fopenOK, res, chk) ==
  /\ halt = "run"
  /\ Live(h)
  /\ FilenameInputs(keyfile, fopenOK, res, chk)
  /\ IF LegalOnly(keyfile)
     THEN IF ~fopenOK
          THEN /\ last' = Call("read_private_key_from_filename", <<h, keyfile>>, -1, <<"fopen:NULL">>)
               /\ UNCHANGED <<pk, rsaLive, badFree, files, origin>>
          ELSE LET r == read_private_key_from_file(h, res)
                   opened == files + 1          \* fopen
                   closed == opened - 1         \* fclose, right after the read
               IN /\ rsaLive' = r.heap.live
                  /\ badFree' = r.heap.bad
                  /\ pk' = [pk EXCEPT ![h].key = r.key]
                  /\ files' = closed
                  /\ IF r.ret = -1
                     THEN /\ last' = Call("read_private_key_from_filename", <<h, keyfile>>, -1,
                                          <<"fopen">> \o r.trace \o <<"fclose">>)
                          /\ UNCHANGED origin
                     ELSE LET retval == crypto_pk_check_key(h, chk)
                              ret == CheckOutcome(retval)
                          IN /\ last' = Call("read_private_key_from_filename", <<h, keyfile>>, ret,
                                             <<"fopen">> \o r.trace \o <<"fclose">>
                                             \o <<"RSA_check_key:" \o ToString(retval)>>)
                             /\ origin' = Originate(h, ret, "other")
     ELSE /\ last' = Call("read_private_key_from_filename", <<h, keyfile>>, -1, <<>>)
          /\ UNCHANGED <<pk, rsaLive, badFree, files, origin>>
  /\ UNCHANGED <<halt, ciphervars>>

\* ------------------------------------- crypto_pk_read_public_key_from_file
crypto_pk_read_public_key_from_file(h, res) ==
  /\ halt = "run"
  /\ Live(h)
  /\ IF pk[h].type = CRYPTO_PK_RSA
     THEN LET old == pk[h].key
              heap == Allocated(ReleaseOld(Heap, old), res)
              ret == IF res.ptr = "null" THEN -1 ELSE 0
          IN /\ rsaLive' = heap.live
             /\ badFree' = heap.bad
             /\ pk' = [pk EXCEPT ![h].key = StoreResult(Released(old), res)]
             /\ last' = Call("read_public_key_from_file", <<h>>, ret,
                             FreeOld(old) \o <<"PEM_read_RSAPublicKey">>)
             /\ origin' = Originate(h, ret, "public")
     ELSE /\ last' = Call("read_public_key_from_file", <<h>>, -1, <<>>)
          /\ UNCHANGED <<pk, rsaLive, badFree, origin>>
  /\ UNCHANGED <<halt, files, ciphervars>>

\* ----------------------------------- crypto_pk_read_public_key_from_string
\* RSA_free is called without a NULL test here.
crypto_pk_read_public_key_from_string(h, res) ==
  /\ halt = "run"
  /\ Live(h)
  /\ IF pk[h].type = CRYPTO_PK_RSA
     THEN LET old == pk[h].key
              heap == Allocated(RSA_free(Heap, old), res)
              ret == IF res.ptr = "null" THEN -1 ELSE 0
          IN /\ rsaLive' = heap.live
             /\ badFree' = heap.bad
             /\ pk' = [pk EXCEPT ![h].key = StoreResult(Released(old), res)]
             /\ last' = Call("read_public_key_from_string", <<h>>, ret,
                             <<"BIO_new", "BIO_write", "RSA_free", "PEM_read_bio_RSAPublicKey">>
                             \o (IF ret = -1 THEN <<>> ELSE <<"BIO_free">>))
             /\ origin' = Originate(h, ret, "public")
     ELSE /\ last' = Call("read_public_key_from_string", <<h>>, -1, <<>>)
          /\ UNCHANGED <<pk, rsaLive, badFree, origin>>
  /\ UNCHANGED <<halt, files, ciphervars>>

\* ------------------------------------------------------ crypto_pk_cmp_keys
\* BN_cmp on two BIGNUMs that are present.
BN_cmp(a, b) == IF a[1] < b[1] THEN -1 ELSE IF a[1] > b[1] THEN 1 ELSE 0

\* Faulty variant of cmp_keys: the public exponents are not compared.
cmp_keys_modulus_only(a, b) ==
  IF a = NULL \/ b = NULL THEN [halt |-> "run", ret |-> -1]
  ELSE IF pk[a].key.ptr = "null" \/ pk[b].key.ptr = "null" THEN [halt |-> "run", ret |-> -1]
  ELSE IF pk[a].key.n = NoBN \/ pk[b].key.n = NoBN THEN [halt |-> "assert", ret |-> 0]
  ELSE [halt |-> "run", ret |-> BN_cmp(pk[a].key.n, pk[b].key.n)]

\* The outcome of crypto_pk_cmp_keys(a, b) in the current state; a and b are
\* addresses of live handles or NULL.
cmp_keys(a, b) ==
  IF a = NULL \/ b = NULL THEN [halt |-> "run", ret |-> -1]
  ELSE IF pk[a].key.ptr = "null" \/ pk[b].key.ptr = "null" THEN [halt |-> "run", ret |-> -1]
  ELSE IF pk[a].type # pk[b].type THEN [halt |-> "run", ret |-> -1]
  ELSE IF pk[a].type = CRYPTO_PK_RSA
  THEN LET ka == pk[a].key
           kb == pk[b].key
       IN IF ~(ka.n # NoBN /\ ka.e # NoBN /\ kb.n # NoBN /\ kb.e # NoBN)
          THEN [halt |-> "assert", ret |-> 0]
          ELSE LET result == BN_cmp(ka.n, kb.n)
               IN IF result # 0 THEN [halt |-> "run", ret |-> result]
                  ELSE [halt |-> "run", ret |-> BN_cmp(ka.e, kb.e)]
  ELSE [halt |-> "run", ret |-> -1]

crypto_pk_cmp_keys(a, b) ==
  /\ halt = "run"
  /\ a = NULL \/ Live(a)
  /\ b = NULL \/ Live(b)
  /\ LET r == cmp_keys(a, b)
     IN /\ halt' = r.halt
        /\ last' = Call("cmp", <<a, b>>, r.ret, <<>>)
  /\ UNCHANGED <<pkvars, ciphervars>>

\* ----------------------------------------------- crypto_pk_private_decrypt
\* out is what RSA_private_decrypt answers when it is called: the plaintext
\* length, or -1.  With env->key NULL the read of ->p dereferences NULL; deref
\* is what the build makes of that: the process dies, or the read yields
\* some word that is zero or not.
PrivateDecryptOuts == {-1, 1}
NullDerefs == {"segv", "zero", "nonzero"}

private_decrypt(h, out, deref) ==
  IF pk[h].type = CRYPTO_PK_RSA
  THEN IF pk[h].key.ptr = "null"
       THEN IF deref = "segv" THEN [halt |-> "segv", ret |-> 0, trace |-> <<>>]
            ELSE IF deref = "zero" THEN [halt |-> "run", ret |-> -1, trace |-> <<>>]
            ELSE [halt |-> "run", ret |-> -1, trace |-> <<"RSA_private_decrypt">>]
       ELSE IF pk[h].key.p = NoBN
            THEN [halt |-> "run", ret |-> -1, trace |-> <<>>]
            ELSE [halt |-> "run", ret |-> out, trace |-> <<"RSA_private_decrypt">>]
  ELSE [halt |-> "run", ret |-> -1, trace |-> <<>>]

crypto_pk_private_decrypt(h, out, deref) ==
  /\ halt = "run"
  /\ Live(h)
  /\ pk[h].key.ptr # "null" => deref = "segv"                            \* deref is not read
  /\ (pk[h].key.ptr = "null" \/ pk[h].key.p = NoBN) => out = -1          \* out is not read
  /\ LET r == private_decrypt(h, out, deref)
     IN /\ halt' = r.halt
        /\ last' = Call("private_decrypt", <<h>>, r.ret, r.trace)
  /\ UNCHANGED <<pkvars, ciphervars>>

\* ------------------------------------ crypto_pk_write_private_key_to_file
\* wrote is whether the provider's PEM writer answers non-zero.
crypto_pk_write_private_key_to_file(h, wrote) ==
  /\ halt = "run"
  /\ Live(h)
  /\ pk[h].key.ptr = "null" => wrote                                     \* wrote is not read
  /\ last' = IF pk[h].type # CRYPTO_PK_RSA THEN Call("write_private_key_to_file", <<h>>, -1, <<>>)
             ELSE IF pk[h].key.ptr = "null" THEN Call("write_private_key_to_file", <<h>>, -1, <<>>)
             ELSE Call("write_private_key_to_file", <<h>>, IF wrote THEN 0 ELSE -1,
                       <<"PEM_write_RSAPrivateKey">>)
  /\ UNCHANGED <<halt, pkvars, ciphervars>>

\* ------------------------------------- crypto_pk_write_public_key_to_file
crypto_pk_write_public_key_to_file(h, wrote) ==
  /\ halt = "run"
  /\ Live(h)
  /\ pk[h].key.ptr = "null" => wrote                                     \* wrote is not read
  /\ last' = IF pk[h].type # CRYPTO_PK_RSA THEN Call("write_public_key_to_file", <<h>>, -1, <<>>)
             ELSE IF pk[h].key.ptr = "null" THEN Call("write_public_key_to_file", <<h>>, -1, <<>>)
             ELSE Call("write_public_key_to_file", <<h>>, IF wrote THEN 0 ELSE -1,
                       <<"PEM_write_RSAPublicKey">>)
  /\ UNCHANGED <<halt, pkvars, ciphervars>>

\* ----------------------------------- crypto_pk_write_public_key_to_string
\* The outcome of crypto_pk_write_public_key_to_string(env, dest, len): wrote
\* is whether PEM_write_bio_RSAPublicKey answers non-zero, mallocOK whether
\* malloc(buf->length+1) returns a block.
write_public_key_to_string(h, wrote, mallocOK) ==
  IF pk[h].key.ptr = "null" THEN [halt |-> "assert", ret |-> 0, trace |-> <<>>]
  ELSE IF pk[h].type # CRYPTO_PK_RSA THEN [halt |-> "run", ret |-> -1, trace |-> <<>>]
  ELSE IF ~wrote
  THEN [halt |-> "run", ret |-> -1, trace |-> <<"BIO_new", "PEM_write_bio_RSAPublicKey">>]
  ELSE IF ~mallocOK
  THEN [halt |-> "run", ret |-> -1,
        trace |-> <<"BIO_new", "PEM_write_bio_RSAPublicKey", "BIO_free", "malloc">>]
  ELSE [halt |-> "run", ret |-> 0,
        trace |-> <<"BIO_new", "PEM_write_bio_RSAPublicKey", "BIO_free", "malloc", "BUF_MEM_free">>]

crypto_pk_write_public_key_to_string(h, wrote, mallocOK) ==
  /\ halt = "run"
  /\ Live(h)
  /\ (pk[h].key.ptr = "null" \/ ~wrote) => mallocOK                      \* mallocOK is not read
  /\ pk[h].key.ptr = "null" => wrote                                     \* wrote is not read
  /\ LET r == write_public_key_to_string(h, wrote, mallocOK)
     IN /\ halt' = r.halt
        /\ last' = Call("write_public_key_to_string", <<h>>, r.ret, r.trace)
  /\ UNCHANGED <<pkvars, ciphervars>>

\* --------------------------------------------------- crypto_new_cipher_env
\* The calls of the err: label, for the pointers that are set.
ErrFrees(key, iv, aux) ==
  (IF key.ptr # "null" THEN <<"free:key">> ELSE <<>>)
  \o (IF iv.ptr # "null" THEN <<"free:iv">> ELSE <<>>)
  \o (IF aux.ptr # "null" THEN <<"free:aux">> ELSE <<>>)
  \o <<"free:env">>

\* The outcome of crypto_new_cipher_env(type): how the process goes on, the
\* handle built (NULL is UnallocCipher), the blocks left allocated, the calls made.
new_cipher_env(type, envOK, auxOK, ivOK, keyOK) ==
  IF ~envOK THEN [halt |-> "run", env |-> UnallocCipher, blocks |-> 0, trace |-> <<>>]
  ELSE
  LET iv_len == crypto_cipher_iv_length(type)
      key_len == crypto_cipher_key_length(type)
  IN IF iv_len.halt # "run"
     THEN [halt |-> iv_len.halt, env |-> UnallocCipher, blocks |-> 1, trace |-> <<"crypto_cipher_iv_length">>]
     ELSE IF key_len.halt # "run"
     THEN [halt |-> key_len.halt, env |-> UnallocCipher, blocks |-> 1, trace |-> <<"crypto_cipher_key_length">>]
     ELSE IF crypto_cipher_evp_cipher(type) = "NULL"
     THEN [halt |-> "run", env |-> UnallocCipher, blocks |-> 0, trace |-> ErrFrees(NoBuf, NoBuf, NoCtx)]
     ELSE IF ~auxOK
     THEN \* EVP_CIPHER_CTX_init writes through the NULL that malloc returned
          [halt |-> "segv", env |-> UnallocCipher, blocks |-> 1, trace |-> <<"EVP_CIPHER_CTX_init">>]
     ELSE
     LET aux == EVP_CIPHER_CTX_init
         iv == IF iv_len.ret # 0 /\ ivOK THEN malloc(iv_len.ret) ELSE NoBuf
         key == IF key_len.ret # 0 /\ keyOK THEN malloc(key_len.ret) ELSE NoBuf
     IN IF iv_len.ret # 0 /\ iv.ptr = "null"
        THEN [halt |-> "run", env |-> UnallocCipher, blocks |-> 0,
              trace |-> <<"EVP_CIPHER_CTX_init">> \o ErrFrees(NoBuf, NoBuf, aux)]
        ELSE IF key_len.ret # 0 /\ key.ptr = "null"
        THEN [halt |-> "run", env |-> UnallocCipher, blocks |-> 0,
              trace |-> <<"EVP_CIPHER_CTX_init">> \o ErrFrees(NoBuf, iv, aux)]
        ELSE [halt |-> "run",
              env |-> [st |-> "live", type |-> type, key |-> key, iv |-> iv, aux |-> aux],
              blocks |-> 2 + (IF iv.ptr = "live" THEN 1 ELSE 0) + (IF key.ptr = "live" THEN 1 ELSE 0),
              trace |-> <<"EVP_CIPHER_CTX_init">>]

\* An input the call never reads is fixed, so that each run of the call is drawn once.
NewCipherInputs(type, envOK, auxOK, ivOK, keyOK) ==
  /\ (~envOK \/ crypto_cipher_iv_length(type).halt # "run") => (auxOK /\ ivOK /\ keyOK)
  /\ ~auxOK => (ivOK /\ keyOK)
  /\ crypto_cipher_iv_length(type).ret = 0 => ivOK
  /\ ~ivOK => keyOK
  /\ crypto_cipher_key_length(type).ret = 0 => keyOK

crypto_new_cipher_env(type, envOK, auxOK, ivOK, keyOK) ==
  /\ halt = "run"
  /\ FreeCipherIds # {}
  /\ NewCipherInputs(type, envOK, auxOK, ivOK, keyOK)
  /\ LET c == Min(FreeCipherIds)
         r == new_cipher_env(type, envOK, auxOK, ivOK, keyOK)
     IN /\ halt' = r.halt
        /\ cipher' = IF r.env.st = "live" THEN [cipher EXCEPT ![c] = r.env] ELSE cipher
        /\ cmem' = cmem + r.blocks
        /\ last' = Call("new_cipher", <<type>>, IF r.env.st = "live" THEN c ELSE NULL, r.trace)
  /\ UNCHANGED pkvars

\* -------------------------------------------------- crypto_free_cipher_env
\* Faulty variant of FreeCalls: the key buffer is released before the iv buffer.
FreeCallsKeyFirst(env) ==
  (IF crypto_cipher_evp_cipher(env.type) # "NULL" THEN <<"EVP_CIPHER_CTX_cleanup">> ELSE <<>>)
  \o (IF env.aux.ptr # "null" THEN <<"free:aux">> ELSE <<>>)
  \o (IF env.key.ptr # "null" THEN <<"free:key">> ELSE <<>>)
  \o (IF env.iv.ptr # "null" THEN <<"free:iv">> ELSE <<>>)
  \o <<"free:env">>

\* The calls crypto_free_cipher_env makes on env, in their order.
FreeCalls(env) ==
  (IF crypto_cipher_evp_cipher(env.type) # "NULL" THEN <<"EVP_CIPHER_CTX_cleanup">> ELSE <<>>)
  \o (IF env.aux.ptr # "null" THEN <<"free:aux">> ELSE <<>>)
  \o (IF env.iv.ptr # "null" THEN <<"free:iv">> ELSE <<>>)
  \o (IF env.key.ptr # "null" THEN <<"free:key">> ELSE <<>>)
  \o <<"free:env">>

\* The blocks a list of calls gives back to malloc.
Freed(calls) == Len(SelectSeq(calls, LAMBDA c : c \in {"free:aux", "free:iv", "free:key", "free:env"}))

\* The outcome of crypto_free_cipher_env(env): how the process goes on and the calls made.
free_cipher_env(env) ==
  IF crypto_cipher_evp_cipher(env.type) # "NULL" /\ env.aux.ptr = "null"
  THEN [halt |-> "assert", trace |-> <<>>]
  ELSE [halt |-> "run", trace |-> FreeCalls(env)]

crypto_free_cipher_env(c) ==
  /\ halt = "run"
  /\ LiveCipher(c)
  /\ LET r == free_cipher_env(cipher[c])
     IN /\ halt' = r.halt
        /\ cipher' = IF r.halt = "run" THEN [cipher EXCEPT ![c] = UnallocCipher] ELSE cipher
        /\ cmem' = cmem - Freed(r.trace)
        /\ last' = Call("free_cipher", <<c>>, 0, r.trace)
  /\ UNCHANGED pkvars

\* ---------------------------------------------------- crypto_cipher_set_iv
\* The outcome of crypto_cipher_set_iv(env, iv): how the process goes on, the
\* value returned, the handle after the call, the calls made.
set_iv(env, iv) ==
  IF iv.ptr = "null" THEN [halt |-> "assert", ret |-> 0, env |-> env, trace |-> <<>>]
  ELSE LET iv_len == crypto_cipher_iv_length(env.type)
       IN IF iv_len.halt # "run" THEN [halt |-> iv_len.halt, ret |-> 0, env |-> env, trace |-> <<>>]
          ELSE IF iv_len.ret = 0 THEN [halt |-> "run", ret |-> 0, env |-> env, trace |-> <<>>]
          ELSE IF env.iv.ptr = "null" THEN [halt |-> "run", ret |-> -1, env |-> env, trace |-> <<>>]
          ELSE [halt |-> "run", ret |-> 0,
                env |-> [env EXCEPT !.iv = memcpy(@, iv, iv_len.ret)],
                trace |-> <<"memcpy">>]

crypto_cipher_set_iv(c, iv) ==
  /\ halt = "run"
  /\ LiveCipher(c)
  /\ LET r == set_iv(cipher[c], iv)
     IN /\ halt' = r.halt
        /\ cipher' = [cipher EXCEPT ![c] = r.env]
        /\ last' = Call("set_iv", <<c, iv>>, r.ret, r.trace)
  /\ UNCHANGED <<cmem, pkvars>>

\* --------------------------------------------------- crypto_cipher_set_key
set_key(env, key) ==
  IF key.ptr = "null" THEN [halt |-> "assert", ret |-> 0, env |-> env, trace |-> <<>>]
  ELSE LET key_len == crypto_cipher_key_length(env.type)
       IN IF key_len.halt # "run" THEN [halt |-> key_len.halt, ret |-> 0, env |-> env, trace |-> <<>>]
          ELSE IF key_len.ret = 0 THEN [halt |-> "run", ret |-> 0, env |-> env, trace |-> <<>>]
          ELSE IF env.key.ptr = "null" THEN [halt |-> "run", ret |-> -1, env |-> env, trace |-> <<>>]
          ELSE [halt |-> "run", ret |-> 0,
                env |-> [env EXCEPT !.key = memcpy(@, key, key_len.ret)],
                trace |-> <<"memcpy">>]

crypto_cipher_set_key(c, key) ==
  /\ halt = "run"
  /\ LiveCipher(c)
  /\ LET r == set_key(cipher[c], key)
     IN /\ halt' = r.halt
        /\ cipher' = [cipher EXCEPT ![c] = r.env]
        /\ last' = Call("set_key", <<c, key>>, r.ret, r.trace)
  /\ UNCHANGED <<cmem, pkvars>>

\* ---------------------------------------------- crypto_cipher_generate_key
\* rnd holds the bytes RAND_bytes writes; ok is whether it answers 1.  When it
\* does not, the buffer is left as it was.
generate_key(env, rnd, ok) ==
  LET key_len == crypto_cipher_key_length(env.type)
  IN IF key_len.halt # "run" THEN [halt |-> key_len.halt, ret |-> 0, env |-> env, trace |-> <<>>]
     ELSE IF key_len.ret > 0
     THEN IF env.key.ptr = "null"
          THEN [halt |-> "assert", ret |-> 0, env |-> env, trace |-> <<"crypto_rand">>]
          ELSE IF ok
          THEN [halt |-> "run", ret |-> 0,
                env |-> [env EXCEPT !.key = memcpy(@, rnd, key_len.ret)],
                trace |-> <<"crypto_rand">>]
          ELSE [halt |-> "run", ret |-> 1, env |-> env, trace |-> <<"crypto_rand">>]
     ELSE IF key_len.ret = 0 THEN [halt |-> "run", ret |-> 0, env |-> env, trace |-> <<>>]
     ELSE [halt |-> "run", ret |-> -1, env |-> env, trace |-> <<>>]

crypto_cipher_generate_key(c, rnd, ok) ==
  /\ halt = "run"
  /\ LiveCipher(c)
  /\ crypto_cipher_key_length(cipher[c].type).ret = 0 => ok             \* ok is not read
  /\ LET r == generate_key(cipher[c], rnd, ok)
     IN /\ halt' = r.halt
        /\ cipher' = [cipher EXCEPT ![c] = r.env]
        /\ last' = Call("generate_key", <<c>>, r.ret, r.trace)
  /\ UNCHANGED <<cmem, pkvars>>

\* --------------------------------------- crypto_cipher_encrypt_init_cipher
\* ok is the provider's answer, and RETURN_SSL_OUTCOME returns !(exp); junk is
\* what the provider reads from bytes of key and iv that were never written.
encrypt_init_cipher(env, ok, junk) ==
  LET evp == crypto_cipher_evp_cipher(env.type)
  IN IF evp # "NULL"
     THEN [halt |-> "run", ret |-> IF ok THEN 0 ELSE 1,
           env |-> [env EXCEPT !.aux = EVP_EncryptInit(@, evp, Resolve(env.key, junk), Resolve(env.iv, junk))],
           trace |-> <<"EVP_EncryptInit">>]
     ELSE [halt |-> "run", ret |-> -1, env |-> env, trace |-> <<>>]

\* An input the call never reads is fixed.
InitInputs(env, ok, junk) ==
  /\ crypto_cipher_evp_cipher(env.type) = "NULL" => ok
  /\ ~(HasUninit(env.key) \/ HasUninit(env.iv)) => junk = 0

crypto_cipher_encrypt_init_cipher(c, ok, junk) ==
  /\ halt = "run"
  /\ LiveCipher(c)
  /\ InitInputs(cipher[c], ok, junk)
  /\ LET r == encrypt_init_cipher(cipher[c], ok, junk)
     IN /\ halt' = r.halt
        /\ cipher' = [cipher EXCEPT ![c] = r.env]
        /\ last' = Call("encrypt_init", <<c>>, r.ret, r.trace)
  /\ UNCHANGED <<cmem, pkvars>>

\* --------------------------------------- crypto_cipher_decrypt_init_cipher
\* The source calls EVP_EncryptInit here as well.
decrypt_init_cipher(env, ok, junk) ==
  LET evp == crypto_cipher_evp_cipher(env.type)
  IN IF evp # "NULL"
     THEN [halt |-> "run", ret |-> IF ok THEN 0 ELSE 1,
           env |-> [env EXCEPT !.aux = EVP_EncryptInit(@, evp, Resolve(env.key, junk), Resolve(env.iv, junk))],
           trace |-> <<"EVP_EncryptInit">>]
     ELSE [halt |-> "run", ret |-> -1, env |-> env, trace |-> <<>>]

crypto_cipher_decrypt_init_cipher(c, ok, junk) ==
  /\ halt = "run"
  /\ LiveCipher(c)
  /\ InitInputs(cipher[c], ok, junk)
  /\ LET r == decrypt_init_cipher(cipher[c], ok, junk)
     IN /\ halt' = r.halt
        /\ cipher' = [cipher EXCEPT ![c] = r.env]
        /\ last' = Call("decrypt_init", <<c>>, r.ret, r.trace)
  /\ UNCHANGED <<cmem, pkvars>>

\* --------------------------------------------------- crypto_cipher_encrypt
\* from holds the fromlen bytes given; ok is the provider's answer.  The bytes
\* written to to are the last of the context's out.
crypto_cipher_encrypt(c, from, ok) ==
  /\ halt = "run"
  /\ LiveCipher(c)
  /\ cipher[c].aux.pos + Len(from) <= MaxStream
  /\ cipher[c].aux.cipher = "NULL" => ok                                \* ok is not read
  /\ LET r == EVP_EncryptUpdate(cipher[c].aux, from)
     IN /\ halt' = r.halt
        /\ cipher' = IF r.halt = "run" /\ ok THEN [cipher EXCEPT ![c].aux = r.ctx] ELSE cipher
        /\ last' = Call("encrypt", <<c, from>>, IF ok THEN 0 ELSE 1, <<"EVP_EncryptUpdate">>)
  /\ UNCHANGED <<cmem, pkvars>>

\* --------------------------------------------------- crypto_cipher_decrypt
crypto_cipher_decrypt(c, from, ok) ==
  /\ halt = "run"
  /\ LiveCipher(c)
  /\ cipher[c].aux.pos + Len(from) <= MaxStream
  /\ cipher[c].aux.cipher = "NULL" => ok                                \* ok is not read
  /\ LET r == EVP_DecryptUpdate(cipher[c].aux, from)
     IN /\ halt' = r.halt
        /\ cipher' = IF r.halt = "run" /\ ok THEN [cipher EXCEPT ![c].aux = r.ctx] ELSE cipher
        /\ last' = Call("decrypt", <<c, from>>, IF ok THEN 0 ELSE 1, <<"EVP_DecryptUpdate">>)
  /\ UNCHANGED <<cmem, pkvars>>

\* ----------------------------------------------- crypto_create_init_cipher
\* The error: label: the handle is destroyed and NULL returned.
create_init_error(env, blocks, trace) ==
  LET f == free_cipher_env(env)
  IN [halt |-> f.halt, env |-> UnallocCipher, blocks |-> blocks - Freed(f.trace),
      trace |-> trace \o <<"crypto_free_cipher_env">>]

\* The outcome of crypto_create_init_cipher(cipher_type, key, iv, encrypt_mode):
\* how the process goes on, the handle returned (NULL is UnallocCipher), the
\* blocks left allocated and the functions called.  After crypto_cipher_set_key
\* and crypto_cipher_set_iv returned 0 no byte of key or iv is unwritten, so
\* the init reads no junk.
create_init_cipher(type, key, iv, encrypt_mode, envOK, auxOK, ivOK, keyOK, ok) ==
  LET r1 == new_cipher_env(type, envOK, auxOK, ivOK, keyOK)
      t1 == <<"crypto_new_cipher_env">>
  IN IF r1.halt # "run" \/ r1.env.st # "live"
     THEN [halt |-> r1.halt, env |-> UnallocCipher, blocks |-> r1.blocks, trace |-> t1]
     ELSE
     LET r2 == set_key(r1.env, key)
         t2 == t1 \o <<"crypto_cipher_set_key">>
     IN IF r2.halt # "run"
        THEN [halt |-> r2.halt, env |-> UnallocCipher, blocks |-> r1.blocks, trace |-> t2]
        ELSE IF r2.ret # 0 THEN create_init_error(r2.env, r1.blocks, t2)
        ELSE
        LET r3 == set_iv(r2.env, iv)
            t3 == t2 \o <<"crypto_cipher_set_iv">>
        IN IF r3.halt # "run"
           THEN [halt |-> r3.halt, env |-> UnallocCipher, blocks |-> r1.blocks, trace |-> t3]
           ELSE IF r3.ret # 0 THEN create_init_error(r3.env, r1.blocks, t3)
           ELSE
           LET r4 == IF encrypt_mode # 0 THEN encrypt_init_cipher(r3.env, ok, 0)
                                         ELSE decrypt_init_cipher(r3.env, ok, 0)
               t4 == t3 \o (IF encrypt_mode # 0 THEN <<"crypto_cipher_encrypt_init_cipher">>
                                                ELSE <<"crypto_cipher_decrypt_init_cipher">>)
           IN IF r4.ret # 0 THEN create_init_error(r4.env, r1.blocks, t4)
              ELSE [halt |-> "run", env |-> r4.env, blocks |-> r1.blocks, trace |-> t4]

\* An input the call never reads is fixed.
CreateInitInputs(type, key, iv, envOK, auxOK, ivOK, keyOK, ok) ==
  /\ NewCipherInputs(type, envOK, auxOK, ivOK, keyOK)
  /\ ~(envOK /\ auxOK /\ ivOK /\ keyOK /\ key.ptr # "null" /\ iv.ptr # "null"
       /\ crypto_cipher_evp_cipher(type) # "NULL") => ok

crypto_create_init_cipher(type, key, iv, encrypt_mode, envOK, auxOK, ivOK, keyOK, ok) ==
  /\ halt = "run"
  /\ FreeCipherIds # {}
  /\ CreateInitInputs(type, key, iv, envOK, auxOK, ivOK, keyOK, ok)
  /\ LET c == Min(FreeCipherIds)
         r == create_init_cipher(type, key, iv, encrypt_mode, envOK, auxOK, ivOK, keyOK, ok)
     IN /\ halt' = r.halt
        /\ cipher' = IF r.env.st = "live" THEN [cipher EXCEPT ![c] = r.env] ELSE cipher
        /\ cmem' = cmem + r.blocks
        /\ last' = Call("create_init", <<type, key, iv, encrypt_mode>>,
                        IF r.env.st = "live" THEN c ELSE NULL, r.trace)
  /\ UNCHANGED pkvars

\* ---------------------------------------------------------- specification
\* Handles used through every operation but the load by file name.
NextPk ==
  \/ \E t \in PkTypes, m \in BOOLEAN, r \in BOOLEAN : crypto_new_pk_env(t, m, r)
  \/ \E h \in PkIds : crypto_free_pk_env(h)
  \/ \E h \in PkIds : crypto_pk_dup_key(h)
  \/ \E h \in PkIds, res \in GeneratedKeys \cup {NoKey} : crypto_pk_generate_key(h, res)
  \/ \E h \in PkIds, res \in PrivateKeys \cup {NoKey} : crypto_pk_read_private_key_from_file(h, res)
  \/ \E h \in PkIds, res \in PublicKeys \cup {NoKey} : crypto_pk_read_public_key_from_file(h, res)
  \/ \E h \in PkIds, res \in PublicKeys \cup {NoKey} : crypto_pk_read_public_key_from_string(h, res)
  \/ \E a \in PkIds \cup {NULL}, b \in PkIds \cup {NULL} : crypto_pk_cmp_keys(a, b)
  \/ \E h \in PkIds, out \in PrivateDecryptOuts, deref \in NullDerefs : crypto_pk_private_decrypt(h, out, deref)

SpecPk == Init /\ [][NextPk]_vars

\* Handles that are created, shared, loaded by file name, and destroyed.
NextFile ==
  \/ \E t \in PkTypes, m \in BOOLEAN, r \in BOOLEAN : crypto_new_pk_env(t, m, r)
  \/ \E h \in PkIds : crypto_free_pk_env(h)
  \/ \E h \in PkIds : crypto_pk_dup_key(h)
  \/ \E h \in PkIds, keyfile \in Paths, fopenOK \in BOOLEAN, res \in PrivateKeys \cup {NoKey},
        chk \in {-1, 0, 1} :
       crypto_pk_read_private_key_from_filename(h, keyfile, fopenOK, res, chk)

SpecFile == Init /\ [][NextFile]_vars

\* Public-key handles: the operations that replace the key, and the ones that
\* read the slot afterwards.
NextWrite ==
  \/ \E t \in PkTypes, mallocOK \in BOOLEAN, rsaOK \in BOOLEAN : crypto_new_pk_env(t, mallocOK, rsaOK)
  \/ \E h \in PkIds : crypto_free_pk_env(h)
  \/ \E h \in PkIds : crypto_pk_dup_key(h)
  \/ \E h \in PkIds, res \in GeneratedKeys \cup {NoKey} : crypto_pk_generate_key(h, res)
  \/ \E h \in PkIds, res \in PublicKeys \cup {NoKey} : crypto_pk_read_public_key_from_string(h, res)
  \/ \E a \in PkIds, b \in PkIds : crypto_pk_cmp_keys(a, b)
  \/ \E h \in PkIds, wrote \in BOOLEAN : crypto_pk_write_private_key_to_file(h, wrote)
  \/ \E h \in PkIds, wrote \in BOOLEAN : crypto_pk_write_public_key_to_file(h, wrote)
  \/ \E h \in PkIds, wrote \in BOOLEAN, mallocOK \in BOOLEAN :
       crypto_pk_write_public_key_to_string(h, wrote, mallocOK)

SpecWrite == Init /\ [][NextWrite]_vars

\* One cipher handle at a time, each function called on its own.  No function
\* reads or writes a handle other than the one it is given.
NextCipher ==
  \/ \E t \in CipherTypes, envOK \in BOOLEAN, auxOK \in BOOLEAN, ivOK \in BOOLEAN, keyOK \in BOOLEAN :
       FreeCipherIds = CipherIds /\ crypto_new_cipher_env(t, envOK, auxOK, ivOK, keyOK)
  \/ \E c \in CipherIds : crypto_free_cipher_env(c)
  \/ \E c \in CipherIds, iv \in InputBufs \cup {NoBuf} : crypto_cipher_set_iv(c, iv)
  \/ \E c \in CipherIds, key \in InputBufs \cup {NoBuf} : crypto_cipher_set_key(c, key)
  \/ \E c \in CipherIds, rnd \in InputBufs, ok \in BOOLEAN : crypto_cipher_generate_key(c, rnd, ok)
  \/ \E c \in CipherIds, ok \in BOOLEAN, junk \in {0, JunkByte} : crypto_cipher_encrypt_init_cipher(c, ok, junk)
  \/ \E c \in CipherIds, ok \in BOOLEAN, junk \in {0, JunkByte} : crypto_cipher_decrypt_init_cipher(c, ok, junk)
  \/ \E c \in CipherIds, n \in 1..MaxStream, ok \in BOOLEAN :
       crypto_cipher_encrypt(c, [i \in 1..n |-> 0], ok)
  \/ \E c \in CipherIds, n \in 1..MaxStream, ok \in BOOLEAN :
       crypto_cipher_decrypt(c, [i \in 1..n |-> 0], ok)

SpecCipher == Init /\ [][NextCipher]_vars

\* The combined constructor with every outcome of its steps, and the
\* destructor, one handle at a time.
NextCreate ==
  \/ \E t \in CipherTypes, key \in InputBufs \cup {NoBuf}, iv \in InputBufs \cup {NoBuf},
        encrypt_mode \in {0, 1}, envOK \in BOOLEAN, auxOK \in BOOLEAN, ivOK \in BOOLEAN,
        keyOK \in BOOLEAN, ok \in BOOLEAN :
       /\ FreeCipherIds = CipherIds
       /\ crypto_create_init_cipher(t, key, iv, encrypt_mode, envOK, auxOK, ivOK, keyOK, ok)
  \/ \E c \in CipherIds : crypto_free_cipher_env(c)

SpecCreate == Init /\ [][NextCreate]_vars

\* A sender and a receiver: the first handle is made for encryption and given
\* chunks of plaintext; the second is made for decryption with the same type
\* and some key and iv, and given the first one's output, in order, in chunks
\* of its own choice.
NextSym ==
  \/ \E t \in CipherTypes \ {CRYPTO_CIPHER_OTHER}, key \in InputBufs, iv \in InputBufs :
       /\ FreeCipherIds = CipherIds
       /\ crypto_create_init_cipher(t, key, iv, 1, TRUE, TRUE, TRUE, TRUE, TRUE)
  \/ \E key \in InputBufs, iv \in InputBufs :
       /\ FreeCipherIds = {2}
       /\ crypto_create_init_cipher(cipher[1].type, key, iv, 0, TRUE, TRUE, TRUE, TRUE, TRUE)
  \/ \E from \in Chunks : crypto_cipher_encrypt(1, from, TRUE)
  \/ \E n \in 1..MaxStream :
       /\ LiveCipher(1) /\ LiveCipher(2)
       /\ cipher[2].aux.pos + n <= Len(cipher[1].aux.out)
       /\ crypto_cipher_decrypt(2, SubSeq(cipher[1].aux.out, cipher[2].aux.pos + 1,
                                          cipher[2].aux.pos + n), TRUE)

SpecSym == Init /\ [][NextSym]_vars

\* ============================================================== properties
Range(seq) == {seq[i] : i \in 1..Len(seq)}
Order(x, y) == IF x < y THEN -1 ELSE IF x > y THEN 1 ELSE 0
HasComponents(key) == key.n # NoBN \/ key.e # NoBN \/ key.p # NoBN
LoadOps == {"generate", "read_private_key_from_file", "read_private_key_from_filename",
            "read_public_key_from_file", "read_public_key_from_string"}

\* C1: a crypto_pk_dup_key that returns the handle raises env->refs by exactly
\* one and leaves the key alone; a crypto_free_pk_env with other references
\* left lowers env->refs by exactly one and leaves the key alone; the one that
\* drops the last reference releases the handle and, then and only then, its
\* key; a live handle always has refs >= 1 and no object is released twice.
C1_RefCount ==
  [][ /\ (last'.op = "dup" /\ last'.ret # NULL) =>
           LET h == last'.args[1]
           IN /\ pk'[h] = [pk[h] EXCEPT !.refs = pk[h].refs + 1]
              /\ rsaLive' = rsaLive
      /\ last'.op = "free" =>
           LET h == last'.args[1]
           IN IF pk[h].refs > 1
              THEN /\ pk'[h] = [pk[h] EXCEPT !.refs = pk[h].refs - 1]
                   /\ rsaLive' = rsaLive
                   /\ "RSA_free" \notin Range(last'.trace)
              ELSE /\ pk'[h].st = "unalloc"
                   /\ rsaLive' = rsaLive - (IF pk[h].key.ptr = "live" THEN 1 ELSE 0)
                   /\ (pk[h].key.ptr = "live") = ("RSA_free" \in Range(last'.trace))
      /\ \A h \in PkIds : pk'[h].st = "live" => pk'[h].refs >= 1
      /\ ~badFree'
    ]_vars

\* C1 witness: after a duplicate, the first destroy has returned and the handle
\* still holds its key with one reference left.
C1_Witness ==
  /\ last.op = "free"
  /\ Live(last.args[1])
  /\ pk[last.args[1]].refs = 1
  /\ pk[last.args[1]].key.ptr = "live"
  /\ rsaLive >= 1

\* C2: every RSA object that was allocated and not released is the one in the
\* slot of a live handle (nothing leaks when generate or a load replaces the
\* key), no object is released twice, and no slot points to a released object.
C2_Replace ==
  /\ rsaLive = Cardinality({h \in PkIds : Live(h) /\ pk[h].key.ptr = "live"})
  /\ ~badFree
  /\ \A h \in PkIds : pk[h].key.ptr \in {"null", "live"}

\* C2 witness: a generate has replaced a key that was in the slot.
C2_Witness ==
  /\ last.op = "generate"
  /\ last.ret = 0
  /\ last.trace = <<"RSA_free", "RSA_generate_key">>
  /\ pk[last.args[1]].key \in GeneratedKeys

LacksKeyMaterial(h) ==
  pk[h].key.ptr = "null" \/ pk[h].key.n = NoBN \/ pk[h].key.e = NoBN

\* C4 as stated: crypto_pk_cmp_keys on two handles of which one lacks key
\* material returns -1 and the process goes on.
C4_Incomparable ==
  (/\ last.op = "cmp"
   /\ last.args[1] # NULL /\ last.args[2] # NULL
   /\ LacksKeyMaterial(last.args[1]) \/ LacksKeyMaterial(last.args[2]))
  => (halt = "run" /\ last.ret = -1)

\* The value crypto_pk_cmp_keys returns for incomparable handles.
IncomparableValue == cmp_keys(NULL, NULL).ret

\* C5 as stated: when both handles hold keys with their public components,
\* crypto_pk_cmp_keys does not return the value it returns for incomparable handles.
C5_Distinct ==
  (/\ last.op = "cmp"
   /\ last.args[1] # NULL /\ last.args[2] # NULL
   /\ ~LacksKeyMaterial(last.args[1]) /\ ~LacksKeyMaterial(last.args[2]))
  => last.ret # IncomparableValue

\* C6: for two handles that both hold modulus and public exponent,
\* crypto_pk_cmp_keys returns the order of the moduli when they differ and the
\* order of the public exponents otherwise, and so 0 iff both are equal; the
\* private component plays no part.
C6_PublicOnly ==
  (/\ last.op = "cmp"
   /\ last.args[1] # NULL /\ last.args[2] # NULL
   /\ ~LacksKeyMaterial(last.args[1]) /\ ~LacksKeyMaterial(last.args[2]))
  => LET ka == pk[last.args[1]].key
         kb == pk[last.args[2]].key
     IN /\ halt = "run"
        /\ last.ret = IF ka.n[1] # kb.n[1] THEN Order(ka.n[1], kb.n[1]) ELSE Order(ka.e[1], kb.e[1])
        /\ (last.ret = 0) = (ka.n[1] = kb.n[1] /\ ka.e[1] = kb.e[1])

\* C6 witness: two keys with the same modulus, different public exponents and
\* different private components were compared.
C6_Witness ==
  /\ last.op = "cmp"
  /\ last.args[1] # NULL /\ last.args[2] # NULL
  /\ ~LacksKeyMaterial(last.args[1]) /\ ~LacksKeyMaterial(last.args[2])
  /\ pk[last.args[1]].key.n = pk[last.args[2]].key.n
  /\ pk[last.args[1]].key.e # pk[last.args[2]].key.e
  /\ pk[last.args[1]].key.p # pk[last.args[2]].key.p
  /\ last.ret # 0

\* C7 as stated: on a handle whose last generate or load to return 0 was a
\* public-only load, crypto_pk_private_decrypt returns -1, the process goes
\* on, and RSA_private_decrypt is not called.
C7_NotAPrivateKey ==
  (last.op = "private_decrypt" /\ origin[last.args[1]] = "public")
  => /\ halt = "run"
     /\ last.ret = -1
     /\ "RSA_private_decrypt" \notin Range(last.trace)

Steps(trace) == SelectSeq(trace, LAMBDA c : c # "RSA_free")

\* C9: crypto_pk_read_private_key_from_filename returns 0 only after, in this
\* order, the name passed the character test, fopen succeeded, the key was
\* parsed and RSA_check_key answered 1; it returns -1 when RSA_check_key
\* answered 0 or -1; and every stream it opened is closed when it returns.
C9_LoadFromPath ==
  last.op = "read_private_key_from_filename" =>
    /\ last.ret = 0 =>
         /\ \A i \in 1..Len(last.args[2]) : last.args[2][i] \in CONFIG_LEGAL_FILENAME_CHARACTERS
         /\ Steps(last.trace) = <<"fopen", "PEM_read_RSAPrivateKey", "fclose", "RSA_check_key:1">>
         /\ pk[last.args[1]].key \in PrivateKeys
    /\ Range(last.trace) \cap {"RSA_check_key:0", "RSA_check_key:-1"} # {} => last.ret = -1
    /\ "fopen" \in Range(last.trace) =>
         \E i, j \in 1..Len(last.trace) : i < j /\ last.trace[i] = "fopen" /\ last.trace[j] = "fclose"
    /\ files = 0

\* C9 witness: a key was parsed from an opened file and turned down because
\* RSA_check_key answered 0; the stream is closed.
C9_Witness ==
  /\ last.op = "read_private_key_from_filename"
  /\ last.ret = -1
  /\ "RSA_check_key:0" \in Range(last.trace)
  /\ "fclose" \in Range(last.trace)
  /\ files = 0

\* The blocks malloc'ed for the cipher handle at c.
CipherBlocks(c) ==
  IF cipher[c].st # "live" THEN 0
  ELSE 1 + (IF cipher[c].aux.ptr = "live" THEN 1 ELSE 0)
         + (IF cipher[c].iv.ptr = "live" THEN 1 ELSE 0)
         + (IF cipher[c].key.ptr = "live" THEN 1 ELSE 0)

\* C10 as stated: crypto_new_cipher_env with a type that has no provider
\* primitive returns NULL, the process goes on, and no block it allocated is
\* left allocated.
C10_Unsupported ==
  (last.op = "new_cipher" /\ crypto_cipher_evp_cipher(last.args[1]) = "NULL")
  => /\ halt = "run"
     /\ last.ret = NULL
     /\ cmem = CipherBlocks(1) + CipherBlocks(2)

\* The buffers of a handle are the ones the registry asks for: present iff
\* the length for the type is not 0, and of that length.
Sized(env) ==
  /\ (env.key.ptr = "live") = (crypto_cipher_key_length(env.type).ret > 0)
  /\ Len(env.key.data) = crypto_cipher_key_length(env.type).ret
  /\ (env.iv.ptr = "live") = (crypto_cipher_iv_length(env.type).ret > 0)
  /\ Len(env.iv.data) = crypto_cipher_iv_length(env.type).ret

\* C11: the handle crypto_new_cipher_env returns has a key buffer iff
\* crypto_cipher_key_length(type) > 0 and an iv buffer iff
\* crypto_cipher_iv_length(type) > 0, each of that length; and no call on a
\* handle that stays alive changes its type or the presence or size of either
\* buffer.
C11_Buffers ==
  [][ /\ (last'.op = "new_cipher" /\ last'.ret # NULL) =>
           /\ cipher'[last'.ret].type = last'.args[1]
           /\ Sized(cipher'[last'.ret])
      /\ \A c \in CipherIds :
           (cipher[c].st = "live" /\ cipher'[c].st = "live") =>
             /\ cipher'[c].type = cipher[c].type
             /\ cipher'[c].key.ptr = cipher[c].key.ptr
             /\ Len(cipher'[c].key.data) = Len(cipher[c].key.data)
             /\ cipher'[c].iv.ptr = cipher[c].iv.ptr
             /\ Len(cipher'[c].iv.data) = Len(cipher[c].iv.data)
             /\ Sized(cipher'[c])
    ]_vars

\* C11 witness: a DES handle that was keyed, given its iv and bound has
\* streamed data and still has its two buffers of 8 bytes.
C11_Witness ==
  /\ last.op \in {"encrypt", "decrypt"}
  /\ last.ret = 0
  /\ cipher[last.args[1]].type = CRYPTO_CIPHER_DES
  /\ cipher[last.args[1]].aux.pos > 0
  /\ ~HasUninit(cipher[last.args[1]].key) /\ Len(cipher[last.args[1]].key.data) = 8
  /\ ~HasUninit(cipher[last.args[1]].iv) /\ Len(cipher[last.args[1]].iv.data) = 8

\* C12 as stated: an init returns 0 only on a handle whose key and iv bytes
\* were all written, and a transform returns 0 only on a context that an init
\* has bound.
C12_StateMachine ==
  /\ (last.op \in {"encrypt_init", "decrypt_init"} /\ last.ret = 0) =>
       /\ ~HasUninit(cipher[last.args[1]].key)
       /\ ~HasUninit(cipher[last.args[1]].iv)
  /\ (last.op \in {"encrypt", "decrypt"} /\ halt = "run" /\ last.ret = 0) =>
       cipher[last.args[1]].aux.bound # "none"

C14_KeyBeforeIv ==
  last.op = "free_cipher" =>
    \A i, j \in 1..Len(last.trace) :
      (last.trace[i] = "free:key" /\ last.trace[j] = "free:iv") => i < j

\* C14: crypto_free_cipher_env cleans up the streaming context and frees it,
\* then frees the iv buffer, then the key buffer, each once and only if the
\* type has one, and frees the handle last; all the handle's blocks are given back.
C14_Destroy ==
  [][ last'.op = "free_cipher" =>
        LET env == cipher[last'.args[1]]
        IN /\ halt' = "run"
           /\ last'.trace = <<"EVP_CIPHER_CTX_cleanup", "free:aux">>
                            \o (IF crypto_cipher_iv_length(env.type).ret > 0 THEN <<"free:iv">> ELSE <<>>)
                            \o (IF crypto_cipher_key_length(env.type).ret > 0 THEN <<"free:key">> ELSE <<>>)
                            \o <<"free:env">>
           /\ cmem' = cmem - Len(last'.trace) + 1
           /\ cipher'[last'.args[1]].st = "unalloc"
    ]_vars

\* C14 witness: a handle with both buffers was destroyed and no block is left.
C14_Witness ==
  /\ last.op = "free_cipher"
  /\ last.trace = <<"EVP_CIPHER_CTX_cleanup", "free:aux", "free:iv", "free:key", "free:env">>
  /\ cmem = 0

\* C15 as stated: crypto_cipher_set_key / crypto_cipher_set_iv on a handle
\* whose type has a key / iv of length 0 returns 0, whatever it is given, and
\* the process goes on.
C15_ZeroLength ==
  /\ (last.op = "set_key" /\ crypto_cipher_key_length(cipher[last.args[1]].type).ret = 0) =>
       (halt = "run" /\ last.ret = 0)
  /\ (last.op = "set_iv" /\ crypto_cipher_iv_length(cipher[last.args[1]].type).ret = 0) =>
       (halt = "run" /\ last.ret = 0)

\* C16 as stated: each of the three write functions, on a handle whose slot
\* is NULL, returns -1 and the process goes on.
C16_WriteEmpty ==
  (/\ last.op \in {"write_private_key_to_file", "write_public_key_to_file", "write_public_key_to_string"}
   /\ pk[last.args[1]].key.ptr = "null")
  => (halt = "run" /\ last.ret = -1)

\* C17 as stated: after crypto_cipher_decrypt_init_cipher returned 0 the
\* context is bound for decryption, and after
\* crypto_cipher_encrypt_init_cipher for encryption.
C17_Direction ==
  /\ (last.op = "decrypt_init" /\ last.ret = 0) => cipher[last.args[1]].aux.bound = "dec"
  /\ (last.op = "encrypt_init" /\ last.ret = 0) => cipher[last.args[1]].aux.bound = "enc"

\* C18 as stated: crypto_create_init_cipher either returns NULL with every
\* block it allocated given back, or returns a handle whose key and iv are
\* written and whose context is bound in the direction of encrypt_mode; the
\* process goes on either way.
C18_CreateInit ==
  last.op = "create_init" =>
    /\ halt = "run"
    /\ cmem = CipherBlocks(1) + CipherBlocks(2)
    /\ last.ret # NULL =>
         /\ ~HasUninit(cipher[last.ret].key) /\ ~HasUninit(cipher[last.ret].iv)
         /\ cipher[last.ret].aux.bound = IF last.args[4] # 0 THEN "enc" ELSE "dec"

Count(trace, call) == Len(SelectSeq(trace, LAMBDA c : c = call))

\* C20 as stated: crypto_pk_write_public_key_to_string and
\* crypto_pk_read_public_key_from_string free every BIO they made, and the
\* write frees the BUF_MEM it detached from the BIO, before they return.
C20_BioReleased ==
  last.op \in {"write_public_key_to_string", "read_public_key_from_string"} =>
    /\ Count(last.trace, "BIO_new") = Count(last.trace, "BIO_free")
    /\ Count(last.trace, "BIO_free") = 1 /\ last.op = "write_public_key_to_string"
         => Count(last.trace, "BUF_MEM_free") = 1

====
